---- MODULE Spec2Model ----
(***************************************************************************)
(* shell-command-manager (shcmdmgr): the command line dispatcher of        *)
(* __main__.py, the completion accumulator of complete.py and the stored   *)
(* command record of command.py.                                           *)
(*                                                                         *)
(* Three specifications share the module:                                  *)
(*   SpecComplete  a Complete instance driven through its public methods   *)
(*                 (as test.py's TestCompletion does);                     *)
(*   SpecAliases   the alias groups an App loads from a collection of      *)
(*                 stored records;                                         *)
(*   Spec          one process run, sys.exit(main()), over an argument     *)
(*                 vector.                                                 *)
(* parser.py, args.py, config.py and project.py are not part of the        *)
(* sources; what the model needs of them follows the specification text.   *)
(***************************************************************************)
EXTENDS Integers, Sequences, FiniteSets, TLC

(***************************************************************************)
(* Bounds of the model.                                                    *)
(***************************************************************************)
\* most words a Complete instance under test holds
MaxStored == 2
\* most terminal calls (nothing, commands) made on one Complete instance
MaxTerminal == 2
\* most tokens after the program name in sys.argv of a process run
MaxArgs == 3
\* most records of a stored collection the alias groups are loaded from
MaxRecords == 3
\* nested main() calls after which Python raises RecursionError
MaxRuns == 3

(***************************************************************************)
(* Values.                                                                 *)
(***************************************************************************)
\* Python's None
NONE == "<None>"
\* config.SUCCESSFULL_EXECUTION and config.USER_ERROR, by name
SUCCESSFULL_EXECUTION == "SUCCESSFULL_EXECUTION"
USER_ERROR == "USER_ERROR"
\* a raised Exception / IndexError, as the outcome of a call
EXCEPTION == "Exception"
INDEX_ERROR == "IndexError"

\* Words are sequences of characters, so that startswith and word[0] are
\* computed and not assumed.  The words handed to a Complete instance under
\* test: the empty string, the flag marker alone, a flag, a plain word and
\* a longer word it is a proper prefix of.
Word == {<<>>, <<"-">>, <<"-", "a">>, <<"a">>, <<"a", "a">>}
ListsUpTo(n) == UNION {[1..k -> Word] : k \in 0..n}
WordLists == ListsUpTo(MaxStored)

\* str.startswith
StartsWith(word, prefix) ==
    /\ Len(prefix) <= Len(word)
    /\ SubSeq(word, 1, Len(prefix)) = prefix

VARIABLES
    \* a Complete instance under test
    com, comAdded, comView, comTerminal,
    \* the process: sys.argv, the module's DEFAULT_COMMAND_WAS_INJECTED,
    \* conf['default_command'] (split), whether the working directory is in a project
    argv, DEFAULT_COMMAND_WAS_INJECTED, default_command, project,
    \* whether a Parser consumes the list it is given in place, and the runs
    \* whose Parser was given sys.argv itself
    in_place, aliased,
    \* per main() run (setup): its Parser, its conf, its App; the logger's level
    parsers, confs, apps, loggerLevel,
    \* control: the function about to run, the run it belongs to, the callers
    \* waiting for a return value, the value being returned, how the process ended
    pc, cur, stack, ret, status,
    \* what happened so far, in order
    log,
    \* a stored record collection (the alias field of each record), the
    \* Commands loaded from it, the Leaf Actions made of them and the method
    \* that made them
    commands_file, commands_db, aliases, aliasesBy

comVars == <<com, comAdded, comView, comTerminal>>
procVars == <<argv, DEFAULT_COMMAND_WAS_INJECTED, default_command, project,
              in_place, aliased, parsers, confs, apps, loggerLevel, pc, cur, stack, ret, status, log>>
vars == <<com, comAdded, comView, comTerminal,
          argv, DEFAULT_COMMAND_WAS_INJECTED, default_command, project,
          in_place, aliased, parsers, confs, apps, loggerLevel, pc, cur, stack, ret, status, log,
          commands_file, commands_db, aliases, aliasesBy>>
aliasVars == <<commands_file, commands_db, aliases, aliasesBy>>

\* no collection is being loaded
AliasIdle ==
    /\ commands_file = <<>>
    /\ commands_db = <<>>
    /\ aliases = <<>>
    /\ aliasesBy = "nothing"

(***************************************************************************)
(* complete.py: class Complete                                             *)
(***************************************************************************)
\* Complete.__init__: last_arg, words = [] (through the setter), invoked
CompleteNew(last_arg) ==
    [last_arg |-> last_arg, words |-> <<>>, invoked |-> FALSE]

\* the condition of the words getter (line 24); word is non-empty here
ViableWord(word, last_arg) ==
    StartsWith(word, last_arg) /\ (Len(last_arg) # 0 \/ word[1] # "-")

\* the loop of the words getter: word[0] of an empty word raises IndexError;
\* else res_words is returned
RECURSIVE WordsLoop(_, _, _)
WordsLoop(last_arg, ws, res_words) ==
    IF ws = <<>> THEN [raised |-> NONE, words |-> res_words]
    ELSE IF Len(Head(ws)) = 0 THEN [raised |-> INDEX_ERROR, words |-> <<>>]
    ELSE WordsLoop(last_arg, Tail(ws),
                   IF ViableWord(Head(ws), last_arg)
                   THEN Append(res_words, Head(ws)) ELSE res_words)

\* Complete.words (property getter)
WordsGetter(c) == WordsLoop(c.last_arg, c.words, <<>>)

\* Complete.words (setter): raises on an empty word, else stores the list
WordsSetterRaises(words) == \E i \in 1..Len(words) : Len(words[i]) = 0
WordsSetter(c, words) ==
    IF WordsSetterRaises(words) THEN c ELSE [c EXCEPT !.words = words]

\* Complete.add_words: __words += new_words, nothing is checked
AddWords(c, new_words) ==
    [c EXCEPT !.words = @ \o new_words]

\* mutant of CheckInvocation: the flag is never set
CheckInvocationForgets(c) == c

\* Complete.check_invocation, when it does not raise
CheckInvocation(c) == [c EXCEPT !.invoked = TRUE]

\* Complete.commands: check_invocation, then add_words of every list
RECURSIVE AddAll(_, _)
AddAll(c, words_lists) ==
    IF words_lists = <<>> THEN c
    ELSE AddAll(AddWords(c, Head(words_lists)), Tail(words_lists))

RECURSIVE Flatten(_)
Flatten(lists) ==
    IF lists = <<>> THEN <<>> ELSE Head(lists) \o Flatten(Tail(lists))

(***************************************************************************)
(* A Complete instance under test: com = Complete(last_arg), then any      *)
(* sequence of its methods.  comAdded lists the words handed over and      *)
(* accepted, in order; comView holds what the last read of com.words gave  *)
(* (empty once the instance changed); comTerminal lists the terminal calls *)
(* made and how each ended.                                                *)
(***************************************************************************)
ComIdle ==
    /\ comAdded = <<>>
    /\ comView = <<>>
    /\ comTerminal = <<>>

ProcIdle ==
    /\ argv = <<>>
    /\ DEFAULT_COMMAND_WAS_INJECTED = FALSE
    /\ default_command = <<>>
    /\ project = FALSE
    /\ in_place = FALSE
    /\ aliased = {}
    /\ parsers = <<>>
    /\ confs = <<>>
    /\ apps = <<>>
    /\ loggerLevel = NONE
    /\ pc = "done"
    /\ cur = 0
    /\ stack = <<>>
    /\ ret = NONE
    /\ status = "idle"
    /\ log = <<>>

InitComplete ==
    /\ \E last_arg \in Word : com = CompleteNew(last_arg)
    /\ ComIdle
    /\ ProcIdle
    /\ AliasIdle

\* com.add_words(new_words)
ComAddWords ==
    \E new_words \in WordLists :
        /\ Len(com.words) + Len(new_words) <= MaxStored
        /\ com' = AddWords(com, new_words)
        /\ comAdded' = comAdded \o new_words
        /\ comView' = <<>>
        /\ UNCHANGED comTerminal

\* com.words = words
ComSetWords ==
    \E words \in WordLists :
        /\ com' = WordsSetter(com, words)
        /\ comAdded' = IF WordsSetterRaises(words) THEN comAdded ELSE words
        /\ comView' = <<>>
        /\ UNCHANGED comTerminal

\* com.words
ComGetWords ==
    /\ comView' = <<WordsGetter(com)>>
    /\ UNCHANGED <<com, comAdded, comTerminal>>

\* com.nothing()
ComNothing ==
    /\ Len(comTerminal) < MaxTerminal
    /\ IF com.invoked
       THEN /\ comTerminal' = Append(comTerminal, [name |-> "nothing", result |-> EXCEPTION])
            /\ UNCHANGED <<com, comAdded, comView>>
       ELSE /\ com' = CheckInvocation(com)
            /\ comTerminal' = Append(comTerminal,
                                     [name |-> "nothing", result |-> SUCCESSFULL_EXECUTION])
            /\ comView' = <<>>
            /\ UNCHANGED comAdded

\* com.commands(*words_lists)
ComCommands ==
    \E words_lists \in {<<>>} \cup {<<l>> : l \in WordLists}
                       \cup {<<k, l>> : k \in ListsUpTo(1), l \in ListsUpTo(1)} :
        /\ Len(comTerminal) < MaxTerminal
        /\ Len(com.words) + Len(Flatten(words_lists)) <= MaxStored
        /\ IF com.invoked
           THEN /\ comTerminal' = Append(comTerminal,
                                         [name |-> "commands", result |-> EXCEPTION])
                /\ UNCHANGED <<com, comAdded, comView>>
           ELSE /\ com' = AddAll(CheckInvocation(com), words_lists)
                /\ comAdded' = comAdded \o Flatten(words_lists)
                /\ comTerminal' = Append(comTerminal,
                                         [name |-> "commands", result |-> SUCCESSFULL_EXECUTION])
                /\ comView' = <<>>

NextComplete ==
    \/ ComAddWords /\ UNCHANGED <<procVars, aliasVars>>
    \/ ComSetWords /\ UNCHANGED <<procVars, aliasVars>>
    \/ ComGetWords /\ UNCHANGED <<procVars, aliasVars>>
    \/ ComNothing /\ UNCHANGED <<procVars, aliasVars>>
    \/ ComCommands /\ UNCHANGED <<procVars, aliasVars>>

SpecComplete == InitComplete /\ [][NextComplete]_vars

(***************************************************************************)
(* Tokens.  Chars gives a token's characters, for the Complete instance    *)
(* the parser feeds.                                                       *)
(***************************************************************************)
Chars(t) ==
    CASE t = "program" -> <<"p", "r", "o", "g", "r", "a", "m">>
      [] t = "--save" -> <<"-", "-", "s", "a", "v", "e">>
      [] t = "-s" -> <<"-", "s">>
      [] t = "--edit" -> <<"-", "-", "e", "d", "i", "t">>
      [] t = "-e" -> <<"-", "e">>
      [] t = "--init" -> <<"-", "-", "i", "n", "i", "t">>
      [] t = "-i" -> <<"-", "i">>
      [] t = "--version" -> <<"-", "-", "v", "e", "r", "s", "i", "o", "n">>
      [] t = "-V" -> <<"-", "V">>
      [] t = "--help" -> <<"-", "-", "h", "e", "l", "p">>
      [] t = "-h" -> <<"-", "h">>
      [] t = "--complete" -> <<"-", "-", "c", "o", "m", "p", "l", "e", "t", "e">>
      [] t = "--completion" -> <<"-", "-", "c", "o", "m", "p", "l", "e", "t", "i", "o", "n">>
      [] t = "--quiet" -> <<"-", "-", "q", "u", "i", "e", "t">>
      [] t = "-q" -> <<"-", "q">>
      [] t = "--verbose" -> <<"-", "-", "v", "e", "r", "b", "o", "s", "e">>
      [] t = "-v" -> <<"-", "v">>
      [] t = "--debug" -> <<"-", "-", "d", "e", "b", "u", "g">>
      [] t = "-d" -> <<"-", "d">>
      [] t = "--project" -> <<"-", "-", "p", "r", "o", "j", "e", "c", "t">>
      [] t = "-p" -> <<"-", "p">>
      [] t = "--global" -> <<"-", "-", "g", "l", "o", "b", "a", "l">>
      [] t = "-g" -> <<"-", "g">>
      [] t = "--alias" -> <<"-", "-", "a", "l", "i", "a", "s">>
      [] t = "-a" -> <<"-", "a">>
      [] t = "--descr" -> <<"-", "-", "d", "e", "s", "c", "r">>
      [] t = "--" -> <<"-", "-">>
      [] t = "al" -> <<"a", "l">>
      [] t = "zz" -> <<"z", "z">>
      [] t = "" -> <<>>

\* The tokens argument vectors are drawn from: one form of every management
\* command, two verbosity flags (-d is also the short form of --descr, an
\* argument of --save that reads a value), the project scope flag, the --
\* of --save (no command carries that name), a stored alias and the empty
\* string.
ArgTokens ==
    {"--save", "-e", "--init", "-V", "--help", "--complete", "--completion",
     "-q", "-d", "--project", "--", "al", ""}
ArgsUpTo(n) == UNION {[1..k -> ArgTokens] : k \in 0..n}

\* conf['default_command'] after shlex.split: not set, a stored alias, a flag only
DefaultCommands == {<<>>, <<"al">>, <<"-q">>}

\* the alias fields of the records stored in the global commands file, and of
\* the records of the project's commands file
GLOBAL_COMMANDS_FILE == <<"al", "", NONE>>
PROJECT_COMMANDS_FILE == <<NONE, "al">>

\* Python truthiness of a string or None
Truthy(x) == x # NONE /\ x # ""

\* config's names
AUTOMATIC_SCOPE == "automatic"
PROJECT_SCOPE == "project"
GLOBAL_SCOPE == "global"
QUIET_LEVEL == "QUIET_LEVEL"
VERBOSE_LEVEL == "VERBOSE_LEVEL"
DEBUG_LEVEL == "DEBUG_LEVEL"
DEFAULT_LEVEL == "DEFAULT_LEVEL"
ALIAS_FAILED == "ALIAS_FAILED"
RECURSION_ERROR == "RecursionError"

\* config.get_conf(): the values main() and the flags read and write
get_conf == [logging_level |-> DEFAULT_LEVEL, scope |-> AUTOMATIC_SCOPE]

\* an entry of log
Ev(ev, name, run, consumed, rest) ==
    [ev |-> ev, name |-> name, run |-> run, consumed |-> consumed, rest |-> rest]

(***************************************************************************)
(* command.py                                                              *)
(***************************************************************************)
\* Command.__init__: an empty alias becomes None
Command(alias) == [alias |-> IF alias = "" THEN NONE ELSE alias]

\* load_commands: one Command per stored record
load_commands(file) == [i \in 1..Len(file) |-> Command(file[i])]

(***************************************************************************)
(* args.py: Argument, CommandArgument, ArgumentGroup                       *)
(***************************************************************************)
Argument(arg_name, short_arg_name, function) ==
    [arg_name |-> arg_name, short_arg_name |-> short_arg_name, function |-> function]

\* the Leaf Action of a stored record: matched by its alias, runs its payload
CommandArgument(cmd) == Argument(cmd.alias, NONE, "run_alias")

ArgumentGroup(title, arguments) == [title |-> title, arguments |-> arguments]

(***************************************************************************)
(* __main__.py: the aliases and the argument groups of an App              *)
(***************************************************************************)
\* mutant of WithAlias: the comprehension has no condition
WithAliasUnfiltered(commands) ==
    [i \in 1..Len(commands) |-> CommandArgument(commands[i])]

\* [CommandArgument(cmd) for cmd in commands if cmd.alias]
WithAlias(commands) ==
    LET kept == SelectSeq(commands, LAMBDA cmd : Truthy(cmd.alias))
    IN  [i \in 1..Len(kept) |-> CommandArgument(kept[i])]

\* App.load_aliases
load_aliases == WithAlias(load_commands(GLOBAL_COMMANDS_FILE))

\* App.load_project_aliases: None (no members) without a project
load_project_aliases(app) ==
    IF app.project THEN WithAlias(load_commands(PROJECT_COMMANDS_FILE)) ELSE <<>>

\* App.argument_args
argument_args ==
    [SAVE |-> Argument("--save", "-s", "cmd_save"),
     EDIT |-> Argument("--edit", "-e", "cmd_edit"),
     INIT |-> Argument("--init", "-i", "cmd_initialize"),
     VERSION |-> Argument("--version", "-V", "cmd_version"),
     HELP |-> Argument("--help", "-h", "cmd_help"),
     COMPLETE |-> Argument("--complete", NONE, "cmd_complete"),
     COMPLETION |-> Argument("--completion", NONE, "cmd_completion"),
     QUIET |-> Argument("--quiet", "-q", "set_quiet"),
     VERBOSE |-> Argument("--verbose", "-v", "set_verbose"),
     DEBUG |-> Argument("--debug", "-d", "set_debug"),
     project_SCOPE |-> Argument("--project", "-p", "set_project"),
     GLOBAL_SCOPE |-> Argument("--global", "-g", "set_global")]

\* App.argument_groups
argument_groups(app) ==
    LET args == argument_args IN
    [PROJECT_COMMANDS |-> ArgumentGroup("project commands", load_project_aliases(app)),
     CUSTOM_COMMANDS |-> ArgumentGroup("custom commands", load_aliases),
     CMD_COMMANDS |-> ArgumentGroup("management commands",
         <<args.SAVE, args.EDIT, args.INIT, args.VERSION, args.HELP, args.COMPLETE,
           args.COMPLETION>>),
     CMD_SHOWN_COMMANDS |-> ArgumentGroup("management commands",
         <<args.SAVE, args.EDIT, args.INIT, args.VERSION, args.HELP>>),
     OUTPUT_ARGUMENTS |-> ArgumentGroup("", <<args.QUIET, args.VERBOSE, args.DEBUG>>),
     OPTIONAL_ARGUMENTS |-> ArgumentGroup("optional arguments",
         <<args.QUIET, args.VERBOSE, args.DEBUG, args.project_SCOPE, args.GLOBAL_SCOPE>>)]

\* App.all_commands
all_commands(app) ==
    <<argument_groups(app).PROJECT_COMMANDS,
      argument_groups(app).CUSTOM_COMMANDS,
      argument_groups(app).CMD_COMMANDS>>

\* the group cmd_save resolves (other_args)
save_arguments ==
    ArgumentGroup("save arguments (missing will be queried)",
        <<Argument("--alias", "-a", "save_alias"),
          Argument("--descr", "-d", "save_descr"),
          Argument("--", NONE, "save_args")>>)

\* the properties cmd_save starts from
save_properties == [alias |-> NONE, description |-> NONE, args |-> NONE]

(***************************************************************************)
(* parser.py: Parser (the Resolver)                                        *)
(***************************************************************************)
\* Parser(arguments, form, logger): execute mode, nothing consumed
Parser(arguments) ==
    [arguments |-> arguments, original |-> arguments, help |-> FALSE, complete |-> <<>>]

peek(p) == IF p.arguments = <<>> THEN NONE ELSE Head(p.arguments)

\* the parser after shift(); shift returns peek(p)
shift(p) == [p EXCEPT !.arguments = IF @ = <<>> THEN <<>> ELSE Tail(@)]

remove_first_argument(p) == [p EXCEPT !.arguments = IF @ = <<>> THEN <<>> ELSE Tail(@)]

\* the parser after get_rest(); get_rest returns p.arguments
get_rest(p) == [p EXCEPT !.arguments = <<>>]

enable_help(p) == [p EXCEPT !.help = TRUE]

\* a Complete seeded with the last token of the original vector
enable_completion(p) ==
    [p EXCEPT !.complete = <<CompleteNew(Chars(p.original[Len(p.original)]))>>]

\* the parser's mode
Mode(p) == IF p.help THEN "help" ELSE IF p.complete # <<>> THEN "complete" ELSE "execute"

\* the members of the groups, in group then declaration order
Members(groups) == Flatten([i \in 1..Len(groups) |-> groups[i].arguments])

\* a token matches a Leaf Action by its long or its short form, exactly
Matches(arg, token) ==
    token # NONE /\ (token = arg.arg_name \/ token = arg.short_arg_name)

\* the first matching member, as <<member>>, or <<>>
FirstMatch(groups, token) ==
    LET all == Members(groups)
        at == {i \in 1..Len(all) : Matches(all[i], token)}
    IN  IF at = {} THEN <<>>
        ELSE <<all[CHOOSE i \in at : \A j \in at : i <= j]>>

\* completion mode, no match: the member names go to the accumulator
Feed(p, groups) ==
    LET all == Members(groups)
    IN  [p EXCEPT !.complete =
            <<AddWords(@[1], [i \in 1..Len(all) |-> Chars(all[i].arg_name)])>>]

\* What load_all and may_have do with the head token: in help mode they only
\* print; in completion mode they feed the names when nothing matches; in
\* execute mode a match is consumed and its operation is to be invoked.
Resolve(groups, p) ==
    LET match == FirstMatch(groups, peek(p)) IN
    CASE Mode(p) = "help" ->
            [parser |-> p, match |-> match, invoke |-> FALSE]
      [] Mode(p) = "complete" ->
            [parser |-> IF match = <<>> THEN Feed(p, groups) ELSE p,
             match |-> match, invoke |-> FALSE]
      [] OTHER ->
            [parser |-> IF match = <<>> THEN p ELSE shift(p),
             match |-> match, invoke |-> match # <<>>]

(***************************************************************************)
(* __main__.py: the operations of the flags and of the --save arguments    *)
(***************************************************************************)
\* set_function(what, property_name, value)
set_function(what, property_name, value) == [what EXCEPT ![property_name] = value]

\* --alias: set_function(properties, 'alias', self.parser.shift())
save_alias(p, properties) ==
    [parser |-> shift(p), properties |-> set_function(properties, "alias", peek(p))]

\* mutant of save_descr: the value is peeked at, not shifted
save_descr_peeks(p, properties) ==
    [parser |-> p, properties |-> set_function(properties, "description", peek(p))]

\* --descr: set_function(properties, 'description', self.parser.shift())
save_descr(p, properties) ==
    [parser |-> shift(p), properties |-> set_function(properties, "description", peek(p))]

\* --: set_function(properties, 'args', self.parser.get_rest())
save_args(p, properties) ==
    [parser |-> get_rest(p), properties |-> set_function(properties, "args", p.arguments)]

\* the operation of a flag or of a --save argument, invoked by load_all
Invoke(function, p, conf, properties) ==
    CASE function = "set_quiet" ->
            [parser |-> p, properties |-> properties,
             conf |-> set_function(conf, "logging_level", QUIET_LEVEL)]
      [] function = "set_verbose" ->
            [parser |-> p, properties |-> properties,
             conf |-> set_function(conf, "logging_level", VERBOSE_LEVEL)]
      [] function = "set_debug" ->
            [parser |-> p, properties |-> properties,
             conf |-> set_function(conf, "logging_level", DEBUG_LEVEL)]
      [] function = "set_project" ->
            [parser |-> p, properties |-> properties,
             conf |-> set_function(conf, "scope", "project")]
      [] function = "set_global" ->
            [parser |-> p, properties |-> properties,
             conf |-> set_function(conf, "scope", "global")]
      [] function = "save_alias" ->
            [parser |-> save_alias(p, properties).parser,
             properties |-> save_alias(p, properties).properties, conf |-> conf]
      [] function = "save_descr" ->
            [parser |-> save_descr(p, properties).parser,
             properties |-> save_descr(p, properties).properties, conf |-> conf]
      [] function = "save_args" ->
            [parser |-> save_args(p, properties).parser,
             properties |-> save_args(p, properties).properties, conf |-> conf]

\* Parser.load_all(groups): one resolution of the head token; in execute mode
\* the matched operation is invoked.  function is the operation invoked (NONE:
\* none), consumed the tokens gone from the stream when the call returns, rest
\* the tokens that followed the head token when it was made.
load_all(groups, p, conf, properties, run) ==
    LET r == Resolve(groups, p)
        after == IF r.invoke
                 THEN Invoke(r.match[1].function, r.parser, conf, properties)
                 ELSE [parser |-> r.parser, properties |-> properties, conf |-> conf]
    IN  [parser |-> after.parser, conf |-> after.conf, properties |-> after.properties,
         event |-> Ev("load_all",
                      IF r.invoke THEN r.match[1].function ELSE NONE,
                      run,
                      Len(p.arguments) - Len(after.parser.arguments),
                      IF p.arguments = <<>> THEN 0 ELSE Len(p.arguments) - 1)]

(***************************************************************************)
(* __main__.py: main() and the App, as steps of one process.  A call that  *)
(* is the last thing its caller does (return app.main_command(), return    *)
(* main(), ...) hands control over; execute_command and cmd_complete wait  *)
(* on stack for the value their callee returns.                            *)
(***************************************************************************)
Running == status = "running"

\* what never changes during a process
env == <<default_command, project, in_place>>

\* The Parser of a run.  setup() hands sys.argv itself to Parser; parser.py is
\* not among the sources and the specification does not say whether the
\* Parser consumes that list in place or works on a copy, so both are
\* modelled (in_place).  A Parser that consumes sys.argv in place reads its
\* stream from argv.
ParserOf(run) ==
    IF run \in aliased THEN [parsers[run] EXCEPT !.arguments = argv] ELSE parsers[run]

\* the Parser of a run after an operation on it
Store(run, p) ==
    /\ parsers' = [parsers EXCEPT ![run] = p]
    /\ argv' = IF run \in aliased THEN p.arguments ELSE argv

\* the process ends: sys.exit(code), or an exception nothing catches
Ends(how, value) ==
    /\ status' = how
    /\ ret' = value
    /\ pc' = "done"

\* Parser.expect_nothing fails: a usage error, the process ends with USER_ERROR
ExpectNothingFails(p) == p.arguments # <<>>

\* mutant of ScopeMismatch: the check is missing
ScopeMismatchUnchecked(conf, proj) == FALSE

\* main, line 59: conf['scope'] == config.PROJECT_SCOPE and not proj
ScopeMismatch(conf, proj) == conf.scope = PROJECT_SCOPE /\ ~proj

\* main, lines 56-58: the automatic scope is resolved
ResolvedScope(conf, proj) ==
    IF conf.scope = AUTOMATIC_SCOPE
    THEN set_function(conf, "scope", IF proj THEN PROJECT_SCOPE ELSE GLOBAL_SCOPE)
    ELSE conf

\* main() up to its return statement, setup() included
main ==
    /\ Running /\ pc = "main"
    /\ IF Len(parsers) >= MaxRuns
       THEN /\ Ends("raised", RECURSION_ERROR)
            /\ UNCHANGED <<argv, DEFAULT_COMMAND_WAS_INJECTED, env, aliased,
                           parsers, confs, apps, loggerLevel, cur, stack, log>>
       ELSE LET run == Len(parsers) + 1
                pars == shift(Parser(argv))
                app == [project |-> project]
            IN  \E output \in {load_all(<<argument_groups(app).OUTPUT_ARGUMENTS>>,
                                        pars, get_conf, save_properties, run)} :
                \E optional \in {load_all(<<argument_groups(app).OPTIONAL_ARGUMENTS>>,
                                          output.parser, output.conf, save_properties, run)} :
                \E conf \in {ResolvedScope(optional.conf, project)} :
                /\ parsers' = Append(parsers, optional.parser)
                /\ aliased' = IF in_place THEN aliased \cup {run} ELSE aliased
                /\ argv' = IF in_place THEN optional.parser.arguments ELSE argv
                /\ confs' = Append(confs, conf)
                /\ apps' = Append(apps, app)
                /\ loggerLevel' = output.conf.logging_level
                /\ cur' = run
                /\ IF ScopeMismatch(conf, project)
                   THEN /\ ret' = USER_ERROR
                        /\ pc' = "return"
                        /\ log' = log \o <<Ev("main", NONE, run, 0, 0), output.event,
                                           optional.event,
                                           Ev("main_returns", USER_ERROR, run, 0, 0)>>
                   ELSE /\ pc' = "main_command"
                        /\ log' = log \o <<Ev("main", NONE, run, 0, 0), output.event,
                                           optional.event>>
                        /\ UNCHANGED ret
                /\ UNCHANGED <<DEFAULT_COMMAND_WAS_INJECTED, env, stack, status>>
    /\ UNCHANGED <<comVars, aliasVars>>

\* mutant of MainCommandNext: help mode does not stop the default command
MainCommandNextIgnoresHelp(p) ==
    IF Truthy(peek(p)) THEN "execute_command" ELSE "invoke_default_command"

\* App.main_command: what it calls, or "return" (it returns None)
MainCommandNext(p) ==
    IF Truthy(peek(p)) THEN "execute_command"
    ELSE IF ~p.help THEN "invoke_default_command"
    ELSE "return"

\* App.main_command
main_command ==
    /\ Running /\ pc = "main_command"
    /\ pc' = MainCommandNext(ParserOf(cur))
    /\ ret' = IF pc' = "return" THEN NONE ELSE ret
    /\ log' = Append(log, Ev("main_command", Mode(ParserOf(cur)), cur, 0,
                             Len(ParserOf(cur).arguments)))
    /\ UNCHANGED <<argv, DEFAULT_COMMAND_WAS_INJECTED, env, aliased,
                   parsers, confs, apps, loggerLevel, cur, stack, status>>
    /\ UNCHANGED <<comVars, aliasVars>>

\* mutant of InjectionRejected: the one-shot flag is not looked at
InjectionNeverRejected(injected) == FALSE

\* invoke_default_command, line 101
InjectionRejected(injected) == injected

\* App.invoke_default_command
invoke_default_command ==
    /\ Running /\ pc = "invoke_default_command"
    /\ IF default_command # <<>>
       THEN IF InjectionRejected(DEFAULT_COMMAND_WAS_INJECTED)
            THEN /\ ret' = USER_ERROR
                 /\ pc' = "return"
                 /\ log' = Append(log, Ev("warning", "The default command is invalid",
                                          cur, 0, 0))
                 /\ UNCHANGED <<argv, DEFAULT_COMMAND_WAS_INJECTED>>
            ELSE /\ DEFAULT_COMMAND_WAS_INJECTED' = TRUE
                 /\ argv' = argv \o default_command
                 /\ pc' = "main"
                 /\ log' = Append(log, Ev("inject", NONE, cur, 0, 0))
                 /\ UNCHANGED ret
       ELSE /\ ret' = USER_ERROR
            /\ pc' = "return"
            /\ log' = Append(log, Ev("warning", "No command given", cur, 0, 0))
            /\ UNCHANGED <<argv, DEFAULT_COMMAND_WAS_INJECTED>>
    /\ UNCHANGED <<env, aliased, parsers, confs, apps, loggerLevel,
                   cur, stack, status>>
    /\ UNCHANGED <<comVars, aliasVars>>

\* execute_command, lines 113-117: the status for what may_have answered
ExecuteCommandStatus(found) ==
    IF ~found THEN USER_ERROR ELSE SUCCESSFULL_EXECUTION

\* App.execute_command up to the operation may_have invokes, or to its return
\* when may_have invokes none
execute_command ==
    /\ Running /\ pc = "execute_command"
    /\ \E p \in {ParserOf(cur)} :
       \E r \in {Resolve(all_commands(apps[cur]), p)} :
       LET function == IF r.match = <<>> THEN NONE ELSE r.match[1].function
           looked == Ev("may_have", function, cur,
                        Len(p.arguments) - Len(r.parser.arguments), Len(p.arguments) - 1)
       IN  /\ Store(cur, r.parser)
           /\ IF r.invoke
              THEN /\ pc' = function
                   /\ stack' = Append(stack, [fn |-> "execute_command", run |-> cur])
                   /\ log' = log \o <<looked, Ev("op", function, cur, 0, 0)>>
                   /\ UNCHANGED ret
              ELSE /\ pc' = "return"
                   /\ ret' = ExecuteCommandStatus(r.match # <<>>)
                   /\ log' = log \o <<looked, Ev("execute_command_returns", ret', cur, 0, 0)>>
                   /\ UNCHANGED stack
    /\ UNCHANGED <<DEFAULT_COMMAND_WAS_INJECTED, env, aliased,
                   confs, apps, loggerLevel, cur, status>>
    /\ UNCHANGED <<comVars, aliasVars>>

\* App.cmd_help
cmd_help ==
    /\ Running /\ pc = "cmd_help"
    /\ LET p == remove_first_argument(enable_help(ParserOf(cur)))
       IN  /\ Store(cur, p)
           /\ log' = log \o <<Ev("enable_help", NONE, cur, 0, 0)>>
                         \o (IF peek(p) = NONE
                             THEN <<Ev("print_general_help", NONE, cur, 0, 0)>> ELSE <<>>)
    /\ pc' = "main_command"
    /\ UNCHANGED <<DEFAULT_COMMAND_WAS_INJECTED, env, aliased,
                   confs, apps, loggerLevel, cur, stack, ret, status>>
    /\ UNCHANGED <<comVars, aliasVars>>

\* App.cmd_version
cmd_version ==
    /\ Running /\ pc = "cmd_version"
    /\ IF ExpectNothingFails(ParserOf(cur))
       THEN /\ Ends("exited", USER_ERROR)
            /\ UNCHANGED log
       ELSE /\ ret' = SUCCESSFULL_EXECUTION
            /\ pc' = "return"
            /\ log' = Append(log, Ev("print", "cmd version", cur, 0, 0))
            /\ UNCHANGED status
    /\ UNCHANGED <<argv, DEFAULT_COMMAND_WAS_INJECTED, env, aliased,
                   parsers, confs, apps, loggerLevel, cur, stack>>
    /\ UNCHANGED <<comVars, aliasVars>>

\* App.cmd_initialize: the directory is made, or the error is logged
cmd_initialize ==
    /\ Running /\ pc = "cmd_initialize"
    /\ IF ExpectNothingFails(ParserOf(cur))
       THEN /\ Ends("exited", USER_ERROR)
       ELSE /\ ret' = SUCCESSFULL_EXECUTION
            /\ pc' = "return"
            /\ UNCHANGED status
    /\ UNCHANGED <<argv, DEFAULT_COMMAND_WAS_INJECTED, env, aliased,
                   parsers, confs, apps, loggerLevel, cur, stack, log>>
    /\ UNCHANGED <<comVars, aliasVars>>

\* App.cmd_edit: subprocess.run(..., check=True) returns or raises
cmd_edit ==
    /\ Running /\ pc = "cmd_edit"
    /\ \E editor \in {"returns", "raises"} :
        IF ExpectNothingFails(ParserOf(cur))
        THEN Ends("exited", USER_ERROR)
        ELSE IF editor = "raises"
        THEN Ends("raised", EXCEPTION)
        ELSE /\ ret' = SUCCESSFULL_EXECUTION
             /\ pc' = "return"
             /\ UNCHANGED status
    /\ UNCHANGED <<argv, DEFAULT_COMMAND_WAS_INJECTED, env, aliased,
                   parsers, confs, apps, loggerLevel, cur, stack, log>>
    /\ UNCHANGED <<comVars, aliasVars>>

\* App.cmd_completion: no setup script exists for the words of ArgTokens
cmd_completion ==
    /\ Running /\ pc = "cmd_completion"
    /\ LET p == shift(ParserOf(cur))
       IN  /\ Store(cur, p)
           /\ IF ExpectNothingFails(p)
              THEN Ends("exited", USER_ERROR)
              ELSE Ends("raised", EXCEPTION)
    /\ UNCHANGED <<DEFAULT_COMMAND_WAS_INJECTED, env, aliased,
                   confs, apps, loggerLevel, cur, stack, log>>
    /\ UNCHANGED <<comVars, aliasVars>>

\* App.cmd_save: its load_all, then the queries and the write to the commands
\* file, which end in the return or in an exception
cmd_save ==
    /\ Running /\ pc = "cmd_save"
    /\ LET loaded == load_all(<<save_arguments>>, ParserOf(cur), confs[cur],
                              save_properties, cur)
       IN  /\ Store(cur, loaded.parser)
           /\ log' = Append(log, loaded.event)
    /\ \E saving \in {"returns", "raises"} :
        IF saving = "raises"
        THEN Ends("raised", EXCEPTION)
        ELSE /\ ret' = SUCCESSFULL_EXECUTION
             /\ pc' = "return"
             /\ UNCHANGED status
    /\ UNCHANGED <<DEFAULT_COMMAND_WAS_INJECTED, env, aliased,
                   confs, apps, loggerLevel, cur, stack>>
    /\ UNCHANGED <<comVars, aliasVars>>

\* the operation of a CommandArgument: the stored command runs as a
\* subprocess and its exit code is returned
run_alias ==
    /\ Running /\ pc = "run_alias"
    /\ \E code \in {SUCCESSFULL_EXECUTION, ALIAS_FAILED} :
        /\ ret' = code
        /\ log' = Append(log, Ev("alias", code, cur, 0, 0))
    /\ pc' = "return"
    /\ UNCHANGED <<argv, DEFAULT_COMMAND_WAS_INJECTED, env, aliased,
                   parsers, confs, apps, loggerLevel, cur, stack, status>>
    /\ UNCHANGED <<comVars, aliasVars>>

\* App.cmd_complete up to its call of main()
cmd_complete ==
    /\ Running /\ pc = "cmd_complete"
    /\ LET p == remove_first_argument(ParserOf(cur))
       IN  IF p.complete # <<>>
           THEN /\ Store(cur, p)
                /\ UNCHANGED <<stack, log>>
           ELSE /\ Store(cur, enable_completion(p))
                /\ stack' = Append(stack, [fn |-> "cmd_complete", run |-> cur])
                /\ log' = Append(log, Ev("enable_completion", NONE, cur, 0, 0))
    /\ pc' = "main"
    /\ UNCHANGED <<DEFAULT_COMMAND_WAS_INJECTED, env, aliased,
                   confs, apps, loggerLevel, cur, ret, status>>
    /\ UNCHANGED <<comVars, aliasVars>>

\* a value comes back to execute_command: may_have answers True, line 117
execute_command_returns ==
    /\ Running /\ pc = "return"
    /\ stack # <<>> /\ stack[Len(stack)].fn = "execute_command"
    /\ ret' = ExecuteCommandStatus(TRUE)
    /\ cur' = stack[Len(stack)].run
    /\ stack' = SubSeq(stack, 1, Len(stack) - 1)
    /\ log' = Append(log, Ev("execute_command_returns", ret', cur', 0, 0))
    /\ UNCHANGED <<argv, DEFAULT_COMMAND_WAS_INJECTED, env, aliased,
                   parsers, confs, apps, loggerLevel, pc, status>>
    /\ UNCHANGED <<comVars, aliasVars>>

\* main() comes back to cmd_complete: the words are printed, main_res returned
cmd_complete_returns ==
    /\ Running /\ pc = "return"
    /\ stack # <<>> /\ stack[Len(stack)].fn = "cmd_complete"
    /\ LET run == stack[Len(stack)].run
           words == WordsGetter(parsers[run].complete[1])
       IN  /\ cur' = run
           /\ IF words.raised # NONE
              THEN /\ Ends("raised", words.raised)
                   /\ UNCHANGED <<stack, log>>
              ELSE /\ stack' = SubSeq(stack, 1, Len(stack) - 1)
                   /\ log' = Append(log, Ev("print_words", NONE, run, 0, Len(words.words)))
                   /\ UNCHANGED <<pc, ret, status>>
    /\ UNCHANGED <<argv, DEFAULT_COMMAND_WAS_INJECTED, env, aliased,
                   parsers, confs, apps, loggerLevel>>
    /\ UNCHANGED <<comVars, aliasVars>>

\* the outermost call returns: sys.exit(main())
exit ==
    /\ Running /\ pc = "return"
    /\ stack = <<>>
    /\ Ends("exited", ret)
    /\ UNCHANGED <<argv, DEFAULT_COMMAND_WAS_INJECTED, env, aliased,
                   parsers, confs, apps, loggerLevel, cur, stack, log>>
    /\ UNCHANGED <<comVars, aliasVars>>

Next ==
    \/ main
    \/ main_command
    \/ invoke_default_command
    \/ execute_command
    \/ cmd_help
    \/ cmd_version
    \/ cmd_initialize
    \/ cmd_edit
    \/ cmd_completion
    \/ cmd_save
    \/ run_alias
    \/ cmd_complete
    \/ execute_command_returns
    \/ cmd_complete_returns
    \/ exit

\* one process run: sys.exit(main()) over an argument vector
Init ==
    /\ \E last_arg \in {<<>>} : com = CompleteNew(last_arg)
    /\ ComIdle
    /\ \E args \in ArgsUpTo(MaxArgs) : argv = <<"program">> \o args
    /\ DEFAULT_COMMAND_WAS_INJECTED = FALSE
    /\ default_command \in DefaultCommands
    /\ project \in BOOLEAN
    /\ in_place \in BOOLEAN
    /\ aliased = {}
    /\ parsers = <<>>
    /\ confs = <<>>
    /\ apps = <<>>
    /\ loggerLevel = NONE
    /\ pc = "main"
    /\ cur = 0
    /\ stack = <<>>
    /\ ret = NONE
    /\ status = "running"
    /\ log = <<>>
    /\ AliasIdle

Spec == Init /\ [][Next]_vars

(***************************************************************************)
(* Properties of the Complete instance (SpecComplete).                     *)
(***************************************************************************)
\* what the words view is specified to be for the words added: those that
\* start with the prefix, in the order added, without the ones that start
\* with the flag marker when the prefix is empty
SpecifiedView(last_arg, added) ==
    SelectSeq(added, LAMBDA w : /\ StartsWith(w, last_arg)
                                /\ ~(last_arg = <<>> /\ StartsWith(w, <<"-">>)))

\* C5: whenever com.words has been read, what the read gave is exactly the
\* added words that start with last_arg, in the order added, minus the words
\* starting with "-" when last_arg is empty.
C5_ViewIsPrefixFilter ==
    comView # <<>> =>
        /\ comView[1].raised = NONE
        /\ comView[1].words = SpecifiedView(com.last_arg, comAdded)

\* C6: the instance is closed exactly when a terminal call was made; the
\* first terminal call succeeds and every later one raises, whichever of
\* nothing and commands each of them is.
C6_TerminalOnce ==
    /\ com.invoked = (comTerminal # <<>>)
    /\ \A i \in 1..Len(comTerminal) :
           comTerminal[i].result = IF i = 1 THEN SUCCESSFULL_EXECUTION ELSE EXCEPTION

\* a second terminal call was made after commands, and it raised
C6_SecondCallRaised ==
    /\ Len(comTerminal) >= 2
    /\ comTerminal[1].name = "commands"
    /\ comTerminal[2].name = "nothing"
    /\ comTerminal[2].result = EXCEPTION

\* C7: every word the instance holds is non-empty.
C7_NoEmptyWordStored ==
    \A i \in 1..Len(com.words) : com.words[i] # <<>>

(***************************************************************************)
(* Properties of a process run (Spec), stated over log.                    *)
(***************************************************************************)
\* the entry records that an operation of a Leaf Action is invoked: by
\* may_have (op) or inside load_all
Invokes(e) == e.ev = "op" \/ (e.ev = "load_all" /\ e.name # NONE)

\* the positions of the entries of one kind
Entries(ev) == {i \in 1..Len(log) : log[i].ev = ev}

\* C1: once help mode has been enabled, nothing that follows invokes an
\* operation of a Leaf Action, injects the default command or starts the
\* pipeline again.
C1_HelpNeverInvokes ==
    \A j \in 1..Len(log) :
        (Invokes(log[j]) \/ log[j].ev \in {"inject", "main"}) =>
            \A i \in 1..(j - 1) : log[i].ev # "enable_help"

\* help mode was enabled, main_command then found the stream exhausted with
\* a default command configured, and the process has ended
C1_HelpStreamExhausted ==
    /\ status = "exited"
    /\ default_command # <<>>
    /\ \E j \in Entries("main_command") :
           /\ log[j].name = "help"
           /\ log[j].rest = 0
           /\ \E i \in 1..(j - 1) : log[i].ev = "enable_help"

OwnReads(function, rest) ==
    CASE function \in {"save_alias", "save_descr"} -> IF rest > 0 THEN 1 ELSE 0
      [] function = "save_args" -> rest
      [] OTHER -> 0

\* C3 (as stated): every load_all call that matched in execute mode has
\* consumed exactly one token when it returns.
C3_ConsumesExactlyOne ==
    \A i \in Entries("load_all") : log[i].name # NONE => log[i].consumed = 1

\* C3 (amended): a load_all call that matched in execute mode has invoked one
\* operation and consumed the matched token plus what that operation read
\* itself: nothing for a verbosity or scope flag, the next token if there is
\* one for --alias and --descr, every remaining token for --.
C3_ConsumesMatchAndOwnReads ==
    \A i \in Entries("load_all") :
        log[i].name # NONE =>
            log[i].consumed = 1 + OwnReads(log[i].name, log[i].rest)

\* a load_all call matched --descr (-d) and the operation shifted its value
C3_ValueShifted ==
    \E i \in Entries("load_all") : log[i].name = "save_descr" /\ log[i].consumed = 2

\* the warning of a rejected injection
Rejection(e) == e.ev = "warning" /\ e.name = "The default command is invalid"

\* C4: the default command is injected at most once per process, so that
\* without --complete the pipeline runs at most twice; a rejected attempt
\* returns USER_ERROR and nothing after it injects, starts the pipeline or
\* invokes an operation.
C4_InjectedAtMostOnce ==
    /\ Cardinality(Entries("inject")) <= 1
    /\ Entries("enable_completion") = {} => Cardinality(Entries("main")) <= 2
    /\ \A i \in 1..Len(log) :
           Rejection(log[i]) =>
               /\ i = Len(log) => ret = USER_ERROR
               /\ \A j \in (i + 1)..Len(log) :
                      ~Invokes(log[j]) /\ log[j].ev \notin {"inject", "main"}

\* a second injection was attempted and rejected, and the process has ended
\* with USER_ERROR
C4_SecondAttemptRejected ==
    /\ status = "exited"
    /\ ret = USER_ERROR
    /\ Entries("inject") # {}
    /\ \E i \in Entries("warning") : Rejection(log[i])

\* the runs whose scope is project although there is no project
Mismatched == {r \in 1..Len(confs) : confs[r].scope = PROJECT_SCOPE /\ ~project}

\* C8: a run whose scope was set to project without a project returns
\* USER_ERROR from main before main_command: no group of commands is
\* resolved in that run, no operation of a command invoked, nothing injected.
C8_ProjectScopeWithoutProject ==
    \A r \in Mismatched :
        /\ \E i \in Entries("main_returns") : log[i].run = r /\ log[i].name = USER_ERROR
        /\ \A i \in 1..Len(log) :
               log[i].run = r =>
                   log[i].ev \notin {"main_command", "may_have", "op", "alias", "inject"}
        /\ (Len(confs) = 1 /\ status = "exited") => ret = USER_ERROR

\* --project was given first with no project, and the process has ended
C8_Refused ==
    /\ status = "exited"
    /\ 1 \in Mismatched
    /\ Len(argv) >= 3

\* C9: the run that main() starts for --complete has completion mode
\* enabled.
C9_ReentryInCompletionMode ==
    \A i \in Entries("enable_completion") :
        Len(parsers) > log[i].run => parsers[log[i].run + 1].complete # <<>>

\* C10: a process in which the subprocess of an alias failed does not exit
\* with the success status.
C10_AliasFailureSurfaces ==
    (status = "exited" /\ \E i \in Entries("alias") : log[i].name = ALIAS_FAILED)
        => ret # SUCCESSFULL_EXECUTION

\* the flags main() resolves before the command token
VerbosityFlags == {"-q", "-d"}
LeadingFlagTokens == VerbosityFlags \cup {"--project"}

\* the flags a vector starts with, up to its first other token
RECURSIVE LeadingFlags(_)
LeadingFlags(args) ==
    IF args = <<>> \/ Head(args) \notin LeadingFlagTokens THEN <<>>
    ELSE <<Head(args)>> \o LeadingFlags(Tail(args))

\* the verbosity flags given before the command token of the process
VerbosityGiven ==
    SelectSeq(LeadingFlags(Tail(parsers[1].original)), LAMBDA t : t \in VerbosityFlags)

\* the level a verbosity flag stands for
LevelOfFlag(t) == IF t = "-q" THEN QUIET_LEVEL ELSE DEBUG_LEVEL

\* C11: when the first run dispatches a command (may_have invokes its
\* operation) after verbosity flags, the level the logger was set to is that
\* of the last verbosity flag given.
C11_LastVerbosityFlagWins ==
    (/\ Len(parsers) = 1
     /\ log # <<>>
     /\ log[Len(log)].ev = "op"
     /\ VerbosityGiven # <<>>)
        => loggerLevel = LevelOfFlag(VerbosityGiven[Len(VerbosityGiven)])

(***************************************************************************)
(* The alias groups of an App over any stored record collection            *)
(* (SpecAliases): the collection is read by load_commands and the Leaf     *)
(* Actions are made by load_aliases or by load_project_aliases.            *)
(***************************************************************************)
\* the alias field of a stored record: absent, empty, or a word
AliasFields == {NONE, "", "al", "b"}
RecordsUpTo(n) == UNION {[1..k -> AliasFields] : k \in 0..n}

InitAliases ==
    /\ \E last_arg \in {<<>>} : com = CompleteNew(last_arg)
    /\ ComIdle
    /\ ProcIdle
    /\ commands_file \in RecordsUpTo(MaxRecords)
    /\ commands_db = <<>>
    /\ aliases = <<>>
    /\ aliasesBy = "nothing"

\* App.load_aliases over the collection
LoadAliases ==
    /\ commands_db' = load_commands(commands_file)
    /\ aliases' = WithAlias(commands_db')
    /\ aliasesBy' = "load_aliases"
    /\ UNCHANGED commands_file
    /\ UNCHANGED <<comVars, procVars>>

\* App.load_project_aliases over the collection as the project's commands;
\* None (no Leaf Action) without a project
LoadProjectAliases ==
    /\ \E proj \in BOOLEAN :
        /\ commands_db' = IF proj THEN load_commands(commands_file) ELSE <<>>
        /\ aliases' = IF proj THEN WithAlias(commands_db') ELSE <<>>
    /\ aliasesBy' = "load_project_aliases"
    /\ UNCHANGED commands_file
    /\ UNCHANGED <<comVars, procVars>>

NextAliases ==
    \/ LoadAliases
    \/ LoadProjectAliases

SpecAliases == InitAliases /\ [][NextAliases]_vars

\* the alias fields that name a record: neither absent nor empty
NamedFields == SelectSeq(commands_file, LAMBDA a : a # NONE /\ a # "")

\* C12: no loaded Command has an empty alias (it became None), and the Leaf
\* Actions of an alias group are exactly the records of the collection with
\* a non-empty alias, in order: none wraps a record whose alias is absent or
\* empty.
C12_OnlyNamedRecordsBecomeLeafActions ==
    /\ \A i \in 1..Len(commands_db) :
           /\ commands_db[i].alias # ""
           /\ commands_file[i] \in {NONE, ""} => commands_db[i].alias = NONE
    /\ \A i \in 1..Len(aliases) : aliases[i].arg_name \notin {NONE, ""}
    /\ commands_db # <<>> =>
           /\ Len(aliases) = Len(NamedFields)
           /\ \A i \in 1..Len(aliases) : aliases[i].arg_name = NamedFields[i]

\* a collection holding a record without alias, one with an empty alias and
\* a named one was loaded, and only the named one became a Leaf Action
C12_UnnamedRecordsSkipped ==
    /\ aliasesBy = "load_aliases"
    /\ \E i, j, k \in 1..Len(commands_file) :
           commands_file[i] = NONE /\ commands_file[j] = "" /\ commands_file[k] = "al"
    /\ Len(aliases) = 1

\* C13: whenever com.words has been read, no word appears twice in what the
\* read gave, also when the same word was added more than once.
C13_ViewHasNoDuplicates ==
    comView # <<>> =>
        \A i, j \in 1..Len(comView[1].words) :
            comView[1].words[i] = comView[1].words[j] => i = j

====
